---- MODULE Spec2Model ----
(***************************************************************************)
(* Model of lve::FirstApp (first_app.hpp / first_app.cpp): the scene       *)
(* registry built by the constructor and the frame loop of FirstApp::run.  *)
(* The collaborators whose code lives in other files of the repository     *)
(* (LveRenderer, LveBuffer, LveCamera, KeyboardMovementController,         *)
(* PointLightSystem, LveGameObject) are modelled from the specification.   *)
(***************************************************************************)
EXTENDS Integers, Sequences, FiniteSets, TLC

\* ------------------------------------------------------------------ bounds
\* LveSwapChain::MAX_FRAMES_IN_FLIGHT, the N of the frame-resource ring. Its
\* value is set outside first_app; the model is explored for small values.
MAX_FRAMES_IN_FLIGHT == 2
\* The declared maximum number of light descriptors of the Shared State Block,
\* likewise set outside first_app.
MAX_LIGHTS == 2
\* Loop iterations explored (rendered and skipped frames together).
MaxIter == 5
\* Iterations whose beginFrame reports the surface as unavailable.
MaxSkips == 1
\* The clock is read in ticks; it is explored up to MaxClock.
MaxClock == 1
\* Largest registry of the scene-level specifications.
MaxScene == 3
\* Loader calls explored when the loaders are run in any sequence.
MaxLoads == 2
\* Largest value of std::rand() explored: the residues modulo PlantSpread are all
\* among 0 .. MaxRand, and so is a value that wraps around.
MaxRand == 8
\* Largest value of std::rand() explored in the runs checked under fairness.
MaxFairRand == 0

\* Bounds of the bush loop of loadBushObjects: for (int i = -10; i <= 10; i++)
BushFirst == -10
BushLast == 10
\* int numPlants = 8 + std::rand() % 8
PlantBase == 8
PlantSpread == 8

Slots == 0 .. (MAX_FRAMES_IN_FLIGHT - 1)
\* The values of std::rand() explored for the plant count: the residues modulo
\* PlantSpread are all among them, so every plant count is.
RandVals == 0 .. MaxRand
\* Camera-control input of one iteration: no key, or the move-forward key.
Keys == {0, 1}
\* Aspect ratios the swap chain extent can have (it changes on a resize).
Aspects == {1, 2}
\* Readings of the clock, in ticks; a later reading may be the smaller one
\* (high_resolution_clock need not be steady).
ClockReadings == 0 .. MaxClock

\* ------------------------------------------------------- scene registry
NoLight == <<>>
NoModel == "none"

\* An entity: identifier, shared mesh reference, optional light attribute.
Entity(id, model, light) == [id |-> id, model |-> model, light |-> light]

\* An entry of LveGameObject::Map: the key and the entity stored under it.
Entry(key, e) == [key |-> key, id |-> e.id, model |-> e.model, light |-> e.light]

\* LveGameObject::Map::emplace: no insertion when the key is already present.
Emplace(objs, key, e) ==
  IF \E i \in 1 .. Len(objs) : objs[i].key = key THEN objs ELSE Append(objs, Entry(key, e))

\* The registry under construction: the entities in insertion order and the
\* identifier the next LveGameObject::createGameObject call hands out.
Scene(objs, nextId) == [objs |-> objs, nextId |-> nextId]
EmptyScene == Scene(<<>>, 0)

\* createGameObject + model assignment + gameObjects.emplace(getId(), move(obj))
AddObject(s, model, light) ==
  LET obj == Entity(s.nextId, model, light)
  IN  Scene(Emplace(s.objs, obj.id, obj), s.nextId + 1)

\* createGameObject whose object is never registered (its identifier is consumed).
SkipObject(s) == Scene(s.objs, s.nextId + 1)

loadGameObjects(s) ==
  AddObject(AddObject(s, "quad", NoLight), "simple_model", NoLight)

loadTreeObjects(s) == AddObject(SkipObject(s), "tree01", NoLight)

loadBenchObjects(s) == AddObject(s, "bench", NoLight)

\* Faulty variant: the second bush of a row is stored under the identifier of the
\* first one.
BushRow_sharedKey(s) ==
  LET first == AddObject(s, "bush", NoLight)
      bushL == Entity(first.nextId, "bush", NoLight)
      second == Scene(Emplace(first.objs, s.nextId, bushL), first.nextId + 1)
  IN  AddObject(AddObject(second, "bush", NoLight), "bush", NoLight)

\* One iteration of the bush loop: four bushes.
BushRow(s) ==
  AddObject(AddObject(AddObject(AddObject(s, "bush", NoLight),
                                "bush", NoLight), "bush", NoLight), "bush", NoLight)

\* The loops below look at the registry built so far before they go on, so that
\* each iteration is evaluated before the next one starts.
RECURSIVE BushLoop(_, _)
BushLoop(s, i) ==
  IF i <= BushLast
    THEN LET row == BushRow(s)
         IN  IF Len(row.objs) >= 0 THEN BushLoop(row, i + 1) ELSE row
    ELSE s

loadBushObjects(s) == BushLoop(s, BushFirst)

\* makePointLight(350.2f) with color {1, 0.5, 0}; values in tenths.
SolarLight == [intensity |-> 3502, color |-> <<10, 5, 0>>]

\* Faulty variant: the color of the light is left at makePointLight's default.
loadSolarLight_white(s) ==
  AddObject(s, NoModel, [intensity |-> 3502, color |-> <<10, 10, 10>>])

loadSolarLight(s) == AddObject(s, NoModel, SolarLight)

numPlants(r) == PlantBase + (r % PlantSpread)

\* Faulty variant: the loop test is i <= numPlants, one plant too many.
RECURSIVE PlantLoop_inclusive(_, _, _)
PlantLoop_inclusive(s, i, n) ==
  IF i <= n
    THEN LET t == AddObject(s, "plant", NoLight)
         IN  IF Len(t.objs) >= 0 THEN PlantLoop_inclusive(t, i + 1, n) ELSE t
    ELSE s

RECURSIVE PlantLoop(_, _, _)
PlantLoop(s, i, n) ==
  IF i < n
    THEN LET t == AddObject(s, "plant", NoLight)
         IN  IF Len(t.objs) >= 0 THEN PlantLoop(t, i + 1, n) ELSE t
    ELSE s

loadPlantObjects(s, r) == PlantLoop(s, 0, numPlants(r))

\* FirstApp::FirstApp(): the six loaders in the constructor's order.
FirstAppCtor(r) ==
  loadPlantObjects(
    loadSolarLight(loadBushObjects(loadBenchObjects(loadTreeObjects(
      loadGameObjects(EmptyScene))))), r)


\* ------------------------------------------------------------- collaborators
\* LveCamera: the matrices are represented by the parameters that decide them.
\* A default-constructed camera holds identity matrices.
IdentityCamera == [projection |-> [aspect |-> 0], view |-> [tz |-> 0], inverseView |-> [tz |-> 0]]

\* camera.setViewYXZ(translation, rotation): the view translates by the negated
\* position, the inverse view by the position.
setViewYXZ(cam, z) == [cam EXCEPT !.view = [tz |-> 0 - z], !.inverseView = [tz |-> z]]

\* camera.setPerspectiveProjection(radians(50), aspect, 0.1, 100)
setPerspectiveProjection(cam, a) == [cam EXCEPT !.projection = [aspect |-> a]]

\* cameraController.moveInPlaneXZ(window, dt, object): the pressed key moves the
\* viewer along z by the elapsed time.
moveInPlaneXZ(obj, key, dt) == [obj EXCEPT !.z = @ + key * dt]

\* GlobalUbo ubo{}: a value-initialised Shared State Block.
ZeroUbo ==
  [projection |-> [aspect |-> 0], view |-> [tz |-> 0], inverseView |-> [tz |-> 0],
   pointLights |-> <<>>, numLights |-> 0]

\* GlobalUbo ubo{}; ubo.projection = camera.getProjection(); ubo.view =
\* camera.getView(); ubo.inverseView = camera.getInverseView();
FreshUbo(cam) ==
  [ZeroUbo EXCEPT !.projection = cam.projection,
                  !.view = cam.view,
                  !.inverseView = cam.inverseView]

\* The light descriptor copied from a light entity.
Descriptor(e) == [color |-> e.light.color, intensity |-> e.light.intensity]

\* The positions, from i on, of the entities carrying a light attribute.
LightsFrom(objs, i) == {j \in i .. Len(objs) : objs[j].light # NoLight}
\* The first of a non-empty set of positions.
First(js) == CHOOSE j \in js : \A k \in js : j <= k

\* Faulty variant: no test against MAX_LIGHTS.
RECURSIVE ScanLights_uncapped(_, _, _)
ScanLights_uncapped(objs, i, lights) ==
  IF LightsFrom(objs, i) = {} THEN lights
  ELSE LET j == First(LightsFrom(objs, i))
       IN  ScanLights_uncapped(objs, j + 1, Append(lights, Descriptor(objs[j])))

\* PointLightSystem::update scans the registry in iteration order and copies the
\* descriptors of the entities carrying a light attribute, up to MAX_LIGHTS. The
\* scan goes from one light entity to the next.
RECURSIVE ScanLights(_, _, _)
ScanLights(objs, i, lights) ==
  IF LightsFrom(objs, i) = {} \/ Len(lights) >= MAX_LIGHTS THEN lights
  ELSE LET j == First(LightsFrom(objs, i))
       IN  ScanLights(objs, j + 1, Append(lights, Descriptor(objs[j])))

PointLightUpdate(objs, u) ==
  LET lights == ScanLights(objs, 1, <<>>)
  IN  [u EXCEPT !.pointLights = lights, !.numLights = Len(lights)]

\* An LveBuffer: host is what the CPU wrote into the mapped memory, device what a
\* flush has made visible to the GPU.
\* An absent value is the empty sequence, a present one the sequence holding it.
None == <<>>
Some(x) == <<x>>

NewBuffer == [host |-> None, device |-> None]

\* LveBuffer::writeToBuffer copies the block into the mapped memory.
writeToBuffer(buf, block) == [buf EXCEPT !.host = block]

\* LveBuffer::flush makes the mapped memory visible to the device.
flush(buf) == [buf EXCEPT !.device = buf.host]

\* nullptr, the value of beginFrame when the frame is skipped.
NullHandle == 0
\* The command buffer LveRenderer hands out for a frame slot.
CommandBufferOf(slot) == slot + 1

\* LveRenderer::beginFrame waits for the fence of the slot: it returns a command
\* buffer only once the GPU work last submitted for the slot has completed.
FenceSignalled(busy, slot) == slot \notin busy

\* LveRenderer::endFrame submits the frame's commands for the slot ...
Submit(busy, slot) == busy \cup {slot}

\* ... and advances the slot index cyclically.
NextFrameIndex(slot) == (slot + 1) % MAX_FRAMES_IN_FLIGHT

\* vkDeviceWaitIdle returns when no submitted work is pending.
DeviceIdle(busy) == busy = {}

\* globalPool = LveDescriptorPool::Builder(lveDevice)
\*   .setMaxSets(MAX_FRAMES_IN_FLIGHT)
\*   .addPoolSize(VK_DESCRIPTOR_TYPE_UNIFORM_BUFFER, MAX_FRAMES_IN_FLIGHT).build()
NewPool ==
  [maxSets |-> MAX_FRAMES_IN_FLIGHT, uniformBuffers |-> MAX_FRAMES_IN_FLIGHT, allocated |-> 0]

\* n descriptor sets of one uniform-buffer descriptor each are requested from the pool.
AllocateSets(pool, n) == [pool EXCEPT !.allocated = @ + n]

\* for (int i = 0; i < globalDescriptorSets.size(); i++), the vector having
\* MAX_FRAMES_IN_FLIGHT elements: the values of i, in order.
SlotLoop == [k \in 1 .. MAX_FRAMES_IN_FLIGHT |-> k - 1]

\* viewerObject.transform.translation.z = -2.5f, in halves.
ViewerStartZ == -5

\* ---------------------------------------------------------------- state
VARIABLES
  gameObjects,           \* the Scene Registry, in insertion order
  currentId,             \* next identifier of LveGameObject::createGameObject
  pc,                    \* position of the frame-producer thread in run()
  uboBuffers,            \* slot -> buffer (local of run)
  globalDescriptorSets,  \* slot -> the buffer its descriptor set is bound to
  globalPool,            \* the descriptor pool: its capacities and the sets allocated
  resources,             \* "none", "live", "released": the ring's buffers and sets
  camera, viewerObject,  \* locals of run
  currentTime, frameTime, aspect,
  commandBuffer, frameIndex, frameInfo, ubo,   \* locals of one iteration
  currentFrameIndex, isFrameStarted,           \* LveRenderer
  gpuBusy,               \* slots whose submitted GPU work has not completed
  closeEvent, shouldClose,                     \* LveWindow
  iter, skips,           \* iterations begun, frames skipped
  acquired,              \* slot indices of the frames acquired so far
  calls                  \* calls made by the current iteration, in order

vars ==
  <<gameObjects, currentId, pc, uboBuffers, globalDescriptorSets, globalPool,
    resources, camera, viewerObject, currentTime, frameTime, aspect, commandBuffer, frameIndex,
    frameInfo, ubo, currentFrameIndex, isFrameStarted, gpuBusy, closeEvent,
    shouldClose, iter, skips, acquired, calls>>

sceneVars == <<gameObjects, currentId>>
ringVars == <<uboBuffers, globalDescriptorSets, globalPool, resources>>
cameraVars == <<camera, viewerObject, aspect>>
clockVars == <<currentTime, frameTime>>
frameVars == <<commandBuffer, frameIndex, frameInfo, ubo>>
rendererVars == <<currentFrameIndex, isFrameStarted>>
windowVars == <<closeEvent, shouldClose>>
countVars == <<iter, skips, acquired>>

\* run has not been called: its locals, the renderer and the window are as new.
NotStarted ==
  /\ uboBuffers = <<>>
  /\ globalDescriptorSets = <<>>
  /\ globalPool = NewPool
  /\ resources = "none"
  /\ camera = IdentityCamera
  /\ viewerObject = [id |-> 0, z |-> 0]
  /\ currentTime = 0
  /\ frameTime = 0
  /\ aspect = 0
  /\ commandBuffer = NullHandle
  /\ frameIndex = 0
  /\ frameInfo = None
  /\ ubo = None
  /\ currentFrameIndex = 0
  /\ isFrameStarted = FALSE
  /\ gpuBusy = {}
  /\ closeEvent = FALSE
  /\ shouldClose = FALSE
  /\ iter = 0
  /\ skips = 0
  /\ acquired = <<>>
  /\ calls = <<>>

\* The state once an application object exists whose registry is objs.
Constructed(s) ==
  /\ gameObjects = s.objs
  /\ currentId = s.nextId
  /\ pc = "setup"
  /\ NotStarted

\* After FirstApp::FirstApp(), for some value of rand().
Init == \E r \in RandVals : Constructed(FirstAppCtor(r))

\* After FirstApp::FirstApp(), for the values of rand() explored under fairness.
InitFair == \E r \in 0 .. MaxFairRand : Constructed(FirstAppCtor(r))


\* ------------------------------------------------------------ FirstApp::run
\* The calls of one iteration up to and including beginFrame.
Prologue ==
  <<"shouldClose", "glfwPollEvents", "now", "moveInPlaneXZ", "setViewYXZ",
    "getAspectRatio", "setPerspectiveProjection", "beginFrame">>

\* The calls of the body of the if statement, in source order.
FrameCalls ==
  <<"getFrameIndex", "update", "writeToBuffer", "flush", "beginSwapChainRenderPass",
    "renderGameObjects", "render", "endSwapChainRenderPass", "endFrame">>

IterCalls == Prologue \o FrameCalls

\* Faulty variant: the viewer object is registered in the scene.
RunSetup_registersViewer ==
  /\ pc = "setup"
  /\ uboBuffers' = [i \in Slots |-> NewBuffer]
  /\ globalDescriptorSets' = [i \in Slots |-> i]
  /\ globalPool' = AllocateSets(globalPool, Len(SlotLoop))
  /\ resources' = "live"
  /\ camera' = IdentityCamera
  /\ viewerObject' = [id |-> currentId, z |-> ViewerStartZ]
  /\ gameObjects' = Emplace(gameObjects, currentId, Entity(currentId, NoModel, NoLight))
  /\ currentId' = currentId + 1
  /\ currentTime' \in ClockReadings
  /\ pc' = "loop"
  /\ UNCHANGED <<frameTime, aspect, frameVars, rendererVars, gpuBusy,
                 windowVars, countVars, calls>>

\* Faulty variant: every descriptor set is bound to the buffer of slot 0.
RunSetup_sharedBuffer ==
  /\ pc = "setup"
  /\ uboBuffers' = [i \in Slots |-> NewBuffer]
  /\ globalDescriptorSets' = [i \in Slots |-> 0]
  /\ globalPool' = AllocateSets(globalPool, Len(SlotLoop))
  /\ resources' = "live"
  /\ camera' = IdentityCamera
  /\ viewerObject' = [id |-> currentId, z |-> ViewerStartZ]
  /\ currentId' = currentId + 1
  /\ currentTime' \in ClockReadings
  /\ pc' = "loop"
  /\ UNCHANGED <<gameObjects, frameTime, aspect, frameVars, rendererVars, gpuBusy,
                 windowVars, countVars, calls>>

\* Faulty variant: the setup loop runs once too often and requests one set more.
RunSetup_extraSet ==
  /\ pc = "setup"
  /\ uboBuffers' = [i \in Slots |-> NewBuffer]
  /\ globalDescriptorSets' = [i \in Slots |-> i]
  /\ globalPool' = AllocateSets(globalPool, Len(SlotLoop) + 1)
  /\ resources' = "live"
  /\ camera' = IdentityCamera
  /\ viewerObject' = [id |-> currentId, z |-> ViewerStartZ]
  /\ currentId' = currentId + 1
  /\ currentTime' \in ClockReadings
  /\ pc' = "loop"
  /\ UNCHANGED <<gameObjects, frameTime, aspect, frameVars, rendererVars, gpuBusy,
                 windowVars, countVars, calls>>

\* The buffers, the descriptor sets, the render systems, the camera and the viewer
\* object, up to the first clock reading: currentTime = now(), any reading.
RunSetup ==
  /\ pc = "setup"
  /\ uboBuffers' = [i \in Slots |-> NewBuffer]
  /\ globalDescriptorSets' = [i \in Slots |-> i]
  /\ globalPool' = AllocateSets(globalPool, Len(SlotLoop))
  /\ resources' = "live"
  /\ camera' = IdentityCamera
  /\ viewerObject' = [id |-> currentId, z |-> ViewerStartZ]
  /\ currentId' = currentId + 1
  /\ currentTime' \in ClockReadings
  /\ pc' = "loop"
  /\ UNCHANGED <<gameObjects, frameTime, aspect, frameVars, rendererVars, gpuBusy,
                 windowVars, countVars, calls>>

\* Faulty variant: the result of the loop test is ignored, a raised close flag
\* does not end the loop.
LoopTest_noExit ==
  /\ pc = "loop"
  /\ shouldClose \/ closeEvent \/ iter < MaxIter
  /\ calls' = <<"shouldClose">>
  /\ frameTime' = 0
  /\ aspect' = 0
  /\ commandBuffer' = NullHandle
  /\ frameIndex' = 0
  /\ frameInfo' = None
  /\ ubo' = None
  /\ pc' = "poll"
  /\ iter' = IF shouldClose THEN iter ELSE iter + 1
  /\ UNCHANGED <<sceneVars, ringVars, camera, viewerObject, currentTime, rendererVars,
                 gpuBusy, windowVars, skips, acquired>>

\* while (!lveWindow.shouldClose()): the locals of the previous iteration are gone.
\* No new iteration is explored beyond MaxIter unless a close request is pending
\* (the iteration that polls it is the last one).
LoopTest ==
  /\ pc = "loop"
  /\ shouldClose \/ closeEvent \/ iter < MaxIter
  /\ calls' = <<"shouldClose">>
  /\ frameTime' = 0
  /\ aspect' = 0
  /\ commandBuffer' = NullHandle
  /\ frameIndex' = 0
  /\ frameInfo' = None
  /\ ubo' = None
  /\ IF shouldClose
       THEN pc' = "waitIdle" /\ iter' = iter
       ELSE pc' = "poll" /\ iter' = iter + 1
  /\ UNCHANGED <<sceneVars, ringVars, camera, viewerObject, currentTime, rendererVars,
                 gpuBusy, windowVars, skips, acquired>>

\* glfwPollEvents(): a pending close event raises the window's close flag.
PollEvents ==
  /\ pc = "poll"
  /\ shouldClose' = (shouldClose \/ closeEvent)
  /\ calls' = Append(calls, "glfwPollEvents")
  /\ pc' = "time"
  /\ UNCHANGED <<sceneVars, ringVars, cameraVars, clockVars, frameVars, rendererVars,
                 gpuBusy, closeEvent, countVars>>

\* Faulty variant: the clock is not read, the frame time stays at its initial value.
FrameTime_unread ==
  /\ pc = "time"
  /\ frameTime' = 0
  /\ pc' = "input"
  /\ UNCHANGED <<sceneVars, ringVars, cameraVars, currentTime, frameVars, rendererVars,
                 gpuBusy, windowVars, countVars, calls>>

\* Faulty variant: the reading is not kept, every delta is measured from the
\* instant before the loop.
FrameTime_fromStart ==
  /\ pc = "time"
  /\ \E newTime \in ClockReadings :
       /\ frameTime' = newTime - currentTime
       /\ currentTime' = currentTime
  /\ calls' = Append(calls, "now")
  /\ pc' = "input"
  /\ UNCHANGED <<sceneVars, ringVars, cameraVars, frameVars, rendererVars, gpuBusy,
                 windowVars, countVars>>

\* newTime = now(); frameTime = newTime - currentTime; currentTime = newTime
FrameTime ==
  /\ pc = "time"
  /\ \E newTime \in ClockReadings :
       /\ frameTime' = newTime - currentTime
       /\ currentTime' = newTime
  /\ calls' = Append(calls, "now")
  /\ pc' = "input"
  /\ UNCHANGED <<sceneVars, ringVars, cameraVars, frameVars, rendererVars, gpuBusy,
                 windowVars, countVars>>

\* Faulty variant: the view is not recomputed after the viewer has moved.
MoveCamera_staleView ==
  /\ pc = "input"
  /\ \E key \in Keys, a \in Aspects :
       LET moved == moveInPlaneXZ(viewerObject, key, frameTime)
       IN  /\ viewerObject' = moved
           /\ aspect' = a
           /\ camera' = setPerspectiveProjection(camera, a)
  /\ calls' = calls \o <<"moveInPlaneXZ", "setViewYXZ", "getAspectRatio",
                         "setPerspectiveProjection">>
  /\ pc' = "beginFrame"
  /\ UNCHANGED <<sceneVars, ringVars, clockVars, frameVars, rendererVars, gpuBusy,
                 windowVars, countVars>>

\* Faulty variant: the camera-control input is applied twice in the iteration.
MoveCamera_twice ==
  /\ pc = "input"
  /\ \E key \in Keys, a \in Aspects :
       LET moved == moveInPlaneXZ(moveInPlaneXZ(viewerObject, key, frameTime),
                                  key, frameTime)
       IN  /\ viewerObject' = moved
           /\ aspect' = a
           /\ camera' = setPerspectiveProjection(setViewYXZ(camera, moved.z), a)
  /\ calls' = calls \o <<"moveInPlaneXZ", "moveInPlaneXZ", "setViewYXZ", "getAspectRatio",
                         "setPerspectiveProjection">>
  /\ pc' = "beginFrame"
  /\ UNCHANGED <<sceneVars, ringVars, clockVars, frameVars, rendererVars, gpuBusy,
                 windowVars, countVars>>

\* moveInPlaneXZ, setViewYXZ, getAspectRatio, setPerspectiveProjection
MoveCamera ==
  /\ pc = "input"
  /\ \E key \in Keys, a \in Aspects :
       LET moved == moveInPlaneXZ(viewerObject, key, frameTime)
       IN  /\ viewerObject' = moved
           /\ aspect' = a
           /\ camera' = setPerspectiveProjection(setViewYXZ(camera, moved.z), a)
  /\ calls' = calls \o <<"moveInPlaneXZ", "setViewYXZ", "getAspectRatio",
                         "setPerspectiveProjection">>
  /\ pc' = "beginFrame"
  /\ UNCHANGED <<sceneVars, ringVars, clockVars, frameVars, rendererVars, gpuBusy,
                 windowVars, countVars>>

\* lveRenderer.beginFrame() returns a command buffer: the fence of the current
\* slot has been waited for, so the GPU work last submitted for it has completed.
BeginFrameOk ==
  /\ pc = "beginFrame"
  /\ ~isFrameStarted
  /\ FenceSignalled(gpuBusy, currentFrameIndex)
  /\ isFrameStarted' = TRUE
  /\ commandBuffer' = CommandBufferOf(currentFrameIndex)
  /\ calls' = Append(calls, "beginFrame")
  /\ pc' = "frameInfo"
  /\ UNCHANGED <<sceneVars, ringVars, cameraVars, clockVars, frameIndex, frameInfo, ubo,
                 currentFrameIndex, gpuBusy, windowVars, countVars>>

\* Faulty variant: the result of beginFrame is not tested, the body runs without a frame.
BeginFrameSkip_entered ==
  /\ pc = "beginFrame"
  /\ ~isFrameStarted
  /\ skips < MaxSkips
  /\ commandBuffer' = NullHandle
  /\ skips' = skips + 1
  /\ calls' = Append(calls, "beginFrame")
  /\ pc' = "frameInfo"
  /\ UNCHANGED <<sceneVars, ringVars, cameraVars, clockVars, frameIndex, frameInfo, ubo,
                 rendererVars, gpuBusy, windowVars, iter, acquired>>

\* lveRenderer.beginFrame() returns nullptr (the surface is being rebuilt): the
\* body of the if statement is not entered.
BeginFrameSkip ==
  /\ pc = "beginFrame"
  /\ ~isFrameStarted
  /\ skips < MaxSkips
  /\ commandBuffer' = NullHandle
  /\ skips' = skips + 1
  /\ calls' = Append(calls, "beginFrame")
  /\ pc' = "loop"
  /\ UNCHANGED <<sceneVars, ringVars, cameraVars, clockVars, frameIndex, frameInfo, ubo,
                 rendererVars, gpuBusy, windowVars, iter, acquired>>

\* Faulty variant: the slot index is derived from the loop's own iteration count
\* instead of being read from the renderer.
BuildFrameInfo_ownCounter ==
  /\ pc = "frameInfo"
  /\ isFrameStarted
  /\ frameIndex' = (iter - 1) % MAX_FRAMES_IN_FLIGHT
  /\ frameInfo' = Some([frameIndex |-> frameIndex',
                        frameTime |-> frameTime,
                        commandBuffer |-> commandBuffer,
                        camera |-> camera,
                        globalDescriptorSet |-> globalDescriptorSets[frameIndex']])
  /\ acquired' = Append(acquired, frameIndex')
  /\ calls' = Append(calls, "getFrameIndex")
  /\ pc' = "uboInit"
  /\ UNCHANGED <<sceneVars, ringVars, cameraVars, clockVars, commandBuffer, ubo,
                 rendererVars, gpuBusy, windowVars, iter, skips>>

\* int frameIndex = lveRenderer.getFrameIndex(); FrameInfo frameInfo{...}
BuildFrameInfo ==
  /\ pc = "frameInfo"
  /\ isFrameStarted
  /\ frameIndex' = currentFrameIndex
  /\ frameInfo' = Some([frameIndex |-> frameIndex',
                        frameTime |-> frameTime,
                        commandBuffer |-> commandBuffer,
                        camera |-> camera,
                        globalDescriptorSet |-> globalDescriptorSets[frameIndex']])
  /\ acquired' = Append(acquired, frameIndex')
  /\ calls' = Append(calls, "getFrameIndex")
  /\ pc' = "uboInit"
  /\ UNCHANGED <<sceneVars, ringVars, cameraVars, clockVars, commandBuffer, ubo,
                 rendererVars, gpuBusy, windowVars, iter, skips>>

\* Faulty variant: the block is initialised on its first use only (a static local).
UboInit_once ==
  /\ pc = "uboInit"
  /\ ubo' = IF ubo = None THEN Some(FreshUbo(camera)) ELSE ubo
  /\ pc' = "update"
  /\ UNCHANGED <<sceneVars, ringVars, cameraVars, clockVars, commandBuffer, frameIndex,
                 frameInfo, rendererVars, gpuBusy, windowVars, countVars, calls>>

\* GlobalUbo ubo{}; ubo.projection, ubo.view, ubo.inverseView from the camera
UboInit ==
  /\ pc = "uboInit"
  /\ ubo' = Some(FreshUbo(camera))
  /\ pc' = "update"
  /\ UNCHANGED <<sceneVars, ringVars, cameraVars, clockVars, commandBuffer, frameIndex,
                 frameInfo, rendererVars, gpuBusy, windowVars, countVars, calls>>

\* pointLightSystem.update(frameInfo, ubo)
UpdateLights ==
  /\ pc = "update"
  /\ ubo' = Some(PointLightUpdate(gameObjects, ubo[1]))
  /\ calls' = Append(calls, "update")
  /\ pc' = "write"
  /\ UNCHANGED <<sceneVars, ringVars, cameraVars, clockVars, commandBuffer, frameIndex,
                 frameInfo, rendererVars, gpuBusy, windowVars, countVars>>

\* Faulty variant: the block is written to the buffer of the slot after the current one.
WriteToBuffer_nextSlot ==
  /\ pc = "write"
  /\ uboBuffers' =
       [uboBuffers EXCEPT ![(frameIndex + 1) % MAX_FRAMES_IN_FLIGHT] = writeToBuffer(@, ubo)]
  /\ calls' = Append(calls, "writeToBuffer")
  /\ pc' = "flush"
  /\ UNCHANGED <<sceneVars, globalDescriptorSets, globalPool, resources, cameraVars, clockVars,
                 frameVars, rendererVars, gpuBusy, windowVars, countVars>>

\* uboBuffers[frameIndex]->writeToBuffer(&ubo)
WriteToBuffer ==
  /\ pc = "write"
  /\ uboBuffers' = [uboBuffers EXCEPT ![frameIndex] = writeToBuffer(@, ubo)]
  /\ calls' = Append(calls, "writeToBuffer")
  /\ pc' = "flush"
  /\ UNCHANGED <<sceneVars, globalDescriptorSets, globalPool, resources, cameraVars, clockVars,
                 frameVars, rendererVars, gpuBusy, windowVars, countVars>>

\* Faulty variant: the flush of the slot buffer is left out.
Flush_omitted ==
  /\ pc = "flush"
  /\ pc' = "beginPass"
  /\ UNCHANGED <<sceneVars, ringVars, cameraVars, clockVars, frameVars, rendererVars,
                 gpuBusy, windowVars, countVars, calls>>

\* uboBuffers[frameIndex]->flush()
Flush ==
  /\ pc = "flush"
  /\ uboBuffers' = [uboBuffers EXCEPT ![frameIndex] = flush(@)]
  /\ calls' = Append(calls, "flush")
  /\ pc' = "beginPass"
  /\ UNCHANGED <<sceneVars, globalDescriptorSets, globalPool, resources, cameraVars, clockVars,
                 frameVars, rendererVars, gpuBusy, windowVars, countVars>>

\* lveRenderer.beginSwapChainRenderPass(commandBuffer)
BeginSwapChainRenderPass ==
  /\ pc = "beginPass"
  /\ calls' = Append(calls, "beginSwapChainRenderPass")
  /\ pc' = "renderObjects"
  /\ UNCHANGED <<sceneVars, ringVars, cameraVars, clockVars, frameVars, rendererVars,
                 gpuBusy, windowVars, countVars>>

\* Faulty variant: the two render calls are made in the opposite order.
RenderGameObjects_swapped ==
  /\ pc = "renderObjects"
  /\ calls' = calls \o <<"render", "renderGameObjects">>
  /\ pc' = "endPass"
  /\ UNCHANGED <<sceneVars, ringVars, cameraVars, clockVars, frameVars, rendererVars,
                 gpuBusy, windowVars, countVars>>

\* Faulty variant: the render system is handed a Frame Context built anew, for the
\* slot after the current one.
RenderGameObjects_otherInfo ==
  /\ pc = "renderObjects"
  /\ frameInfo' = Some([frameInfo[1] EXCEPT !.frameIndex = NextFrameIndex(@)])
  /\ calls' = Append(calls, "renderGameObjects")
  /\ pc' = "renderLights"
  /\ UNCHANGED <<sceneVars, ringVars, cameraVars, clockVars, commandBuffer, frameIndex,
                 ubo, rendererVars, gpuBusy, windowVars, countVars>>

\* simpleRenderSystem.renderGameObjects(frameInfo)
RenderGameObjects ==
  /\ pc = "renderObjects"
  /\ calls' = Append(calls, "renderGameObjects")
  /\ pc' = "renderLights"
  /\ UNCHANGED <<sceneVars, ringVars, cameraVars, clockVars, frameVars, rendererVars,
                 gpuBusy, windowVars, countVars>>

\* Faulty variant: the block is uploaded again during the render pass.
RenderLights_uploads ==
  /\ pc = "renderLights"
  /\ uboBuffers' = [uboBuffers EXCEPT ![frameIndex] = writeToBuffer(@, Some(ZeroUbo))]
  /\ calls' = Append(calls, "render")
  /\ pc' = "endPass"
  /\ UNCHANGED <<sceneVars, globalDescriptorSets, globalPool, resources, cameraVars, clockVars,
                 frameVars, rendererVars, gpuBusy, windowVars, countVars>>

\* pointLightSystem.render(frameInfo)
RenderLights ==
  /\ pc = "renderLights"
  /\ calls' = Append(calls, "render")
  /\ pc' = "endPass"
  /\ UNCHANGED <<sceneVars, ringVars, cameraVars, clockVars, frameVars, rendererVars,
                 gpuBusy, windowVars, countVars>>

\* lveRenderer.endSwapChainRenderPass(commandBuffer)
EndSwapChainRenderPass ==
  /\ pc = "endPass"
  /\ calls' = Append(calls, "endSwapChainRenderPass")
  /\ pc' = "endFrame"
  /\ UNCHANGED <<sceneVars, ringVars, cameraVars, clockVars, frameVars, rendererVars,
                 gpuBusy, windowVars, countVars>>

\* lveRenderer.endFrame(): the frame's commands are submitted for the current
\* slot and the slot index advances cyclically.
EndFrame ==
  /\ pc = "endFrame"
  /\ isFrameStarted
  /\ gpuBusy' = Submit(gpuBusy, currentFrameIndex)
  /\ isFrameStarted' = FALSE
  /\ currentFrameIndex' = NextFrameIndex(currentFrameIndex)
  /\ calls' = Append(calls, "endFrame")
  /\ pc' = "loop"
  /\ UNCHANGED <<sceneVars, ringVars, cameraVars, clockVars, frameVars, windowVars,
                 countVars>>

\* Faulty variant: run returns without waiting for the device.
DeviceWaitIdle_missing ==
  /\ pc = "waitIdle"
  /\ calls' = Append(calls, "vkDeviceWaitIdle")
  /\ pc' = "return"
  /\ UNCHANGED <<sceneVars, ringVars, cameraVars, clockVars, frameVars, rendererVars,
                 gpuBusy, windowVars, countVars>>

\* vkDeviceWaitIdle(lveDevice.device()) returns once no GPU work is pending.
DeviceWaitIdle ==
  /\ pc = "waitIdle"
  /\ DeviceIdle(gpuBusy)
  /\ calls' = Append(calls, "vkDeviceWaitIdle")
  /\ pc' = "return"
  /\ UNCHANGED <<sceneVars, ringVars, cameraVars, clockVars, frameVars, rendererVars,
                 gpuBusy, windowVars, countVars>>

\* run returns: its locals (the buffers, the descriptor sets) are destroyed.
RunReturn ==
  /\ pc = "return"
  /\ resources' = "released"
  /\ pc' = "done"
  /\ UNCHANGED <<sceneVars, uboBuffers, globalDescriptorSets, globalPool, cameraVars, clockVars,
                 frameVars, rendererVars, gpuBusy, windowVars, countVars, calls>>

\* The GPU finishes the work submitted for a slot.
GpuComplete ==
  /\ \E k \in gpuBusy : gpuBusy' = gpuBusy \ {k}
  /\ UNCHANGED <<sceneVars, pc, ringVars, cameraVars, clockVars, frameVars, rendererVars,
                 windowVars, countVars, calls>>

\* The user asks the window to close; the request is seen by the next poll.
RequestClose ==
  /\ ~closeEvent
  /\ pc \notin {"setup", "done"}
  /\ closeEvent' = TRUE
  /\ UNCHANGED <<sceneVars, pc, ringVars, cameraVars, clockVars, frameVars, rendererVars,
                 gpuBusy, shouldClose, countVars, calls>>

Next ==
  \/ RunSetup
  \/ LoopTest
  \/ PollEvents
  \/ FrameTime
  \/ MoveCamera
  \/ BeginFrameOk
  \/ BeginFrameSkip
  \/ BuildFrameInfo
  \/ UboInit
  \/ UpdateLights
  \/ WriteToBuffer
  \/ Flush
  \/ BeginSwapChainRenderPass
  \/ RenderGameObjects
  \/ RenderLights
  \/ EndSwapChainRenderPass
  \/ EndFrame
  \/ DeviceWaitIdle
  \/ RunReturn
  \/ GpuComplete
  \/ RequestClose

Spec == Init /\ [][Next]_vars

\* The steps of the thread that executes run.
RunStep ==
  \/ RunSetup
  \/ LoopTest
  \/ PollEvents
  \/ FrameTime
  \/ MoveCamera
  \/ BeginFrameOk
  \/ BeginFrameSkip
  \/ BuildFrameInfo
  \/ UboInit
  \/ UpdateLights
  \/ WriteToBuffer
  \/ Flush
  \/ BeginSwapChainRenderPass
  \/ RenderGameObjects
  \/ RenderLights
  \/ EndSwapChainRenderPass
  \/ EndFrame
  \/ DeviceWaitIdle
  \/ RunReturn

\* The thread keeps running while it has a step to take, and the GPU completes
\* the work submitted to it. The plant count has no part in the progress of run:
\* the runs checked under fairness start with the plant counts of 0 .. MaxFairRand.
FairSpec == InitFair /\ [][Next]_vars /\ WF_vars(RunStep) /\ WF_vars(GpuComplete)


\* ------------------------------------------------------------ vocabulary
IsPrefix(a, b) == Len(a) <= Len(b) /\ SubSeq(b, 1, Len(a)) = a
Count(seq, x) == Cardinality({i \in 1 .. Len(seq) : seq[i] = x})
Called(x) == Count(calls, x) > 0
\* x was called, and before every call of y.
CalledBefore(x, y) ==
  \E i \in 1 .. Len(calls) :
    /\ calls[i] = x
    /\ \A j \in 1 .. Len(calls) : calls[j] = y => i < j

\* Positions of run inside the body of the if statement.
FramePcs ==
  {"frameInfo", "uboInit", "update", "write", "flush", "beginPass", "renderObjects",
   "renderLights", "endPass", "endFrame"}
\* Positions between beginSwapChainRenderPass and endSwapChainRenderPass.
PassPcs == {"renderObjects", "renderLights", "endPass"}
\* Positions of the loop (the iteration's calls are in calls).
LoopPcs == FramePcs \cup {"loop", "poll", "time", "input", "beginFrame"}

\* The iteration at hand got a command buffer from beginFrame.
Rendering == commandBuffer # NullHandle
\* An iteration has just ended with endFrame.
FrameDone == pc = "loop" /\ Rendering
\* An iteration has just ended without a frame.
FrameSkipped == pc = "loop" /\ calls = Prologue

\* The orchestrator state of the design, read off the position of run.
OrchState ==
  CASE pc \in {"frameInfo", "uboInit", "update", "write", "flush"} -> "SlotAcquired"
    [] pc = "beginPass" -> "StateUpdated"
    [] pc \in PassPcs -> "PassActive"
    [] pc = "endFrame" -> "PassEnded"
    [] pc = "loop" /\ calls # <<>> /\ calls[Len(calls)] = "endFrame" -> "Presented"
    [] OTHER -> "Idle"

\* The orchestrator state the design prescribes once the iteration has made its
\* first n calls and beginFrame succeeded.
StateAfter(n) ==
  CASE n < Len(Prologue) -> "Idle"
    [] n \in Len(Prologue) .. (Len(Prologue) + 3) -> "SlotAcquired"
    [] n = Len(Prologue) + 4 -> "StateUpdated"
    [] n \in (Len(Prologue) + 5) .. (Len(Prologue) + 7) -> "PassActive"
    [] n = Len(Prologue) + 8 -> "PassEnded"
    [] OTHER -> "Presented"

\* ------------------------------------------------------------------ C1
\* C1: in every iteration in which beginFrame returns a command buffer the calls
\* are made in exactly the order update, writeToBuffer, flush,
\* beginSwapChainRenderPass, renderGameObjects, render, endSwapChainRenderPass,
\* endFrame, each once, and the orchestrator state advances Idle, SlotAcquired,
\* StateUpdated, PassActive, PassEnded, Presented with them.
C1_FrameSequence ==
  pc \in LoopPcs =>
    /\ IsPrefix(calls, IterCalls)
    /\ FrameDone => calls = IterCalls
    /\ pc \in FramePcs => Rendering /\ Len(calls) >= Len(Prologue)
    /\ (pc \in FramePcs \/ FrameDone) => OrchState = StateAfter(Len(calls))
    /\ ~(pc \in FramePcs \/ FrameDone) => OrchState = "Idle"

\* A second frame has been rendered completely.
C1_Witness == FrameDone /\ calls = IterCalls /\ Len(acquired) >= 2

\* ------------------------------------------------------------------ C2
\* C2: in every rendered frame renderGameObjects (opaque) is called before
\* render of the point light system (translucent), once each, both after
\* beginSwapChainRenderPass and before endSwapChainRenderPass, whatever frames
\* were skipped before.
C2_OpaqueBeforeTranslucent ==
  pc \in LoopPcs =>
    /\ Count(calls, "renderGameObjects") <= 1
    /\ Count(calls, "render") <= 1
    /\ Called("render") =>
         /\ CalledBefore("renderGameObjects", "render")
         /\ CalledBefore("beginSwapChainRenderPass", "renderGameObjects")
    /\ Called("renderGameObjects") =>
         CalledBefore("beginSwapChainRenderPass", "renderGameObjects")
    /\ Called("endSwapChainRenderPass") =>
         /\ CalledBefore("render", "endSwapChainRenderPass")
         /\ CalledBefore("renderGameObjects", "endSwapChainRenderPass")
         /\ Count(calls, "beginSwapChainRenderPass") = 1
    /\ FrameDone => Called("renderGameObjects") /\ Called("render")

\* A frame rendered after a skipped one: both render calls were made.
C2_Witness ==
  /\ pc = "endPass"
  /\ skips >= 1
  /\ Len(acquired) >= 2
  /\ CalledBefore("renderGameObjects", "render")

\* ------------------------------------------------------------------ C3
\* C3: an iteration whose beginFrame returns no command buffer calls no
\* subsystem, writes no slot buffer, creates no Shared State Block, begins no
\* render pass and calls no endFrame, and goes back to the top of the loop.
SubsystemCalls == {"update", "renderGameObjects", "render"}

C3_SkipStep ==
  (pc = "beginFrame" /\ commandBuffer' = NullHandle /\ pc' # pc) =>
    /\ pc' = "loop"
    /\ calls' = Prologue
    /\ ubo' = None
    /\ uboBuffers' = uboBuffers
    /\ UNCHANGED <<currentFrameIndex, isFrameStarted, gpuBusy>>

C3_NothingWithoutFrame ==
  (commandBuffer = NullHandle /\ pc \in LoopPcs) =>
    /\ uboBuffers' = uboBuffers
    /\ ubo' = None
    /\ \A i \in 1 .. Len(calls') :
         calls'[i] \notin SubsystemCalls \cup
           {"writeToBuffer", "flush", "beginSwapChainRenderPass",
            "endSwapChainRenderPass", "endFrame"}

C3_SkippedFrame == [][C3_SkipStep /\ C3_NothingWithoutFrame]_vars

\* A frame was skipped after an earlier one had been rendered.
C3_Witness == FrameSkipped /\ skips = 1 /\ Len(acquired) >= 1


\* ------------------------------------------------------------------ C4
\* C4: in a rendered frame the Shared State Block is written to the slot buffer
\* once, after pointLightSystem.update and before beginSwapChainRenderPass, and
\* neither the block nor a slot buffer changes between beginSwapChainRenderPass
\* and endSwapChainRenderPass.
C4_WrittenOnce ==
  pc \in LoopPcs =>
    /\ Count(calls, "writeToBuffer") <= 1
    /\ Called("writeToBuffer") => CalledBefore("update", "writeToBuffer")
    /\ Called("beginSwapChainRenderPass") =>
         /\ CalledBefore("writeToBuffer", "beginSwapChainRenderPass")
         /\ CalledBefore("flush", "beginSwapChainRenderPass")
    /\ FrameDone => Count(calls, "writeToBuffer") = 1
    /\ pc \in PassPcs \cup {"beginPass", "endFrame"} =>
         /\ ubo # None
         /\ uboBuffers[frameIndex].host = ubo
         /\ uboBuffers[frameIndex].device = ubo

C4_ReadOnlyInPass ==
  (pc \in PassPcs) => (ubo' = ubo /\ uboBuffers' = uboBuffers)

C4_SharedStateBlock == [](C4_WrittenOnce) /\ [][C4_ReadOnlyInPass]_vars

\* The render pass of a frame is about to end, with the block in the slot buffer.
C4_Witness ==
  /\ pc = "endPass"
  /\ Count(calls, "writeToBuffer") = 1
  /\ uboBuffers[frameIndex].device = ubo
  /\ Len(acquired) >= 2

\* ------------------------------------------------------------------ C5
\* C5: the buffer of a slot is written (writeToBuffer, flush) only while no GPU
\* work submitted for that slot is pending: a successful beginFrame of the same
\* iteration has waited for the frame that used the slot before.
C5_SlotOwned ==
  pc \in {"frameInfo", "uboInit", "update", "write", "flush"} =>
    /\ commandBuffer # NullHandle
    /\ isFrameStarted
    /\ currentFrameIndex \notin gpuBusy
    /\ pc # "frameInfo" => frameIndex = currentFrameIndex

C5_WriteStep ==
  (pc # "setup" /\ resources = "live") =>
    \A k \in Slots : uboBuffers'[k] # uboBuffers[k] => k \notin gpuBusy

C5_NoWriteWhileGpuReads == [](C5_SlotOwned) /\ [][C5_WriteStep]_vars

\* A slot is written for the second time while the work of another frame is
\* still pending.
C5_Witness ==
  /\ pc = "flush"
  /\ Len(acquired) > MAX_FRAMES_IN_FLIGHT
  /\ gpuBusy # {}
  /\ uboBuffers[frameIndex].host = ubo

\* ------------------------------------------------------------------ C6
\* C6: the F-th acquired frame (F counted from 0) uses slot F mod N, whatever
\* frames were skipped in between; the index stays in [0, N); with N = 2 the
\* first five acquisitions use the slots 0, 1, 0, 1, 0.
C6_SlotSequence ==
  /\ \A i \in 1 .. Len(acquired) : acquired[i] = (i - 1) % MAX_FRAMES_IN_FLIGHT
  /\ \A i \in 1 .. Len(acquired) : acquired[i] \in Slots
  /\ pc \in FramePcs \ {"frameInfo"} =>
       /\ frameIndex \in Slots
       /\ frameIndex = acquired[Len(acquired)]
  /\ (MAX_FRAMES_IN_FLIGHT = 2 /\ Len(acquired) >= 5) =>
       SubSeq(acquired, 1, 5) = <<0, 1, 0, 1, 0>>

\* Five frames were acquired.
C6_Witness == Len(acquired) = 5 /\ pc = "uboInit" /\ frameIndex = 4 % MAX_FRAMES_IN_FLIGHT

\* ------------------------------------------------------------------ C7
\* C7: the projection, view and inverse view uploaded to a frame's slot buffer
\* are the ones computed in the same iteration from the viewer position after
\* that iteration's input and from that iteration's aspect ratio.
CameraOfIteration ==
  [projection |-> [aspect |-> aspect],
   view |-> [tz |-> 0 - viewerObject.z],
   inverseView |-> [tz |-> viewerObject.z]]

StaticPart(block) ==
  [projection |-> block.projection, view |-> block.view, inverseView |-> block.inverseView]

C7_CameraOfSameFrame ==
  /\ pc \in {"update", "write", "flush"} => StaticPart(ubo[1]) = CameraOfIteration
  /\ pc = "flush" => StaticPart(uboBuffers[frameIndex].host[1]) = CameraOfIteration
  /\ pc \in PassPcs \cup {"beginPass", "endFrame"} =>
       /\ StaticPart(uboBuffers[frameIndex].host[1]) = CameraOfIteration
       /\ StaticPart(uboBuffers[frameIndex].device[1]) = CameraOfIteration
  /\ pc \in LoopPcs /\ Called("setPerspectiveProjection") =>
       /\ camera = CameraOfIteration
       /\ aspect \in Aspects

\* A frame was uploaded whose camera differs, in view and projection, from the
\* one of the frame before it.
C7_Witness ==
  /\ pc = "beginPass"
  /\ Len(acquired) >= 2
  /\ \E k \in Slots \ {frameIndex} :
       /\ uboBuffers[k].device # None
       /\ uboBuffers[k].device[1].view # uboBuffers[frameIndex].device[1].view
       /\ uboBuffers[k].device[1].projection # uboBuffers[frameIndex].device[1].projection

\* ------------------------------------------------------------------ C8
\* C8: shouldClose is tested once per iteration, as the iteration's first call;
\* the loop is left only from that test, never from inside a frame; and the
\* buffers and descriptor sets of the ring are released only after
\* vkDeviceWaitIdle has returned with no GPU work pending.
C8_CheckedAtTop ==
  /\ pc \in LoopPcs /\ calls # <<>> =>
       calls[1] = "shouldClose" /\ Count(calls, "shouldClose") = 1
  /\ resources = "released" =>
       /\ gpuBusy = {}
       /\ Called("vkDeviceWaitIdle")
       /\ ~isFrameStarted
  /\ pc \in {"waitIdle", "return", "done"} => shouldClose /\ ~isFrameStarted

C8_ExitStep ==
  /\ pc \in FramePcs /\ pc' # pc => pc' \in FramePcs \cup {"loop"}
  /\ pc' = "waitIdle" /\ pc # "waitIdle" => pc = "loop" /\ shouldClose
  /\ resources' = "released" /\ resources # "released" => pc = "return" /\ gpuBusy = {}
  /\ pc = "loop" /\ pc' # pc => calls' = <<"shouldClose">>

C8_Shutdown == [](C8_CheckedAtTop) /\ [][C8_ExitStep]_vars

\* run has returned after frames were rendered, the close request having
\* arrived while a frame was in progress.
C8_Witness ==
  /\ pc = "done"
  /\ resources = "released"
  /\ Len(acquired) >= 2
  /\ iter = Len(acquired) + skips


\* ------------------------------------------------ update phase, any scene
\* The update phase of a frame (the block's construction, pointLightSystem.update,
\* the upload) for registries with any number of lights, run once or several
\* times before the render phase.

\* A second light, as the lights of the commented-out loop of loadGameObjects:
\* makePointLight(5.2f) with color {1, .1, .1}; values in tenths.
RedLight == [intensity |-> 52, color |-> <<10, 1, 1>>]

EntityKinds == {"mesh", "solar", "red"}

EntityOfKind(id, kind) ==
  CASE kind = "solar" -> Entity(id, NoModel, SolarLight)
    [] kind = "red" -> Entity(id, NoModel, RedLight)
    [] OTHER -> Entity(id, "quad", NoLight)

\* Every registry of at most MaxScene entities, identifiers in creation order.
Scenes ==
  UNION {{[i \in 1 .. n |-> Entry(i - 1, EntityOfKind(i - 1, kinds[i]))] : kinds \in [1 .. n -> EntityKinds]}
         : n \in 0 .. MaxScene}

\* Viewer position and aspect ratio of the cameras the update phase is run with.
TestCameras == {[z |-> ViewerStartZ, a |-> 1], [z |-> ViewerStartZ + 1, a |-> 2]}

CameraAt(c) == setPerspectiveProjection(setViewYXZ(IdentityCamera, c.z), c.a)

\* A frame has been acquired on slot 0 of a new ring, for a scene and a camera.
InitUpd ==
  \E objs \in Scenes, c \in TestCameras :
    /\ gameObjects = objs
    /\ currentId = Len(objs) + 1
    /\ pc = "uboInit"
    /\ uboBuffers = [i \in Slots |-> NewBuffer]
    /\ globalDescriptorSets = [i \in Slots |-> i]
    /\ globalPool = AllocateSets(NewPool, MAX_FRAMES_IN_FLIGHT)
    /\ resources = "live"
    /\ camera = CameraAt(c)
    /\ viewerObject = [id |-> Len(objs), z |-> c.z]
    /\ currentTime = 0
    /\ frameTime = 0
    /\ aspect = c.a
    /\ commandBuffer = CommandBufferOf(0)
    /\ frameIndex = 0
    /\ frameInfo = Some([frameIndex |-> 0,
                         frameTime |-> 0,
                         commandBuffer |-> CommandBufferOf(0),
                         camera |-> CameraAt(c),
                         globalDescriptorSet |-> 0])
    /\ ubo = None
    /\ currentFrameIndex = 0
    /\ isFrameStarted = TRUE
    /\ gpuBusy = {}
    /\ closeEvent = FALSE
    /\ shouldClose = FALSE
    /\ iter = 1
    /\ skips = 0
    /\ acquired = <<0>>
    /\ calls = Append(Prologue, "getFrameIndex")

\* Test only: once the block has been uploaded and before the render pass begins,
\* the update phase is run again, for another scene and another camera.
UpdateAgain ==
  /\ pc = "beginPass"
  /\ iter < MaxIter
  /\ \E objs \in Scenes, c \in TestCameras :
       /\ gameObjects' = objs
       /\ camera' = CameraAt(c)
       /\ viewerObject' = [viewerObject EXCEPT !.z = c.z]
       /\ aspect' = c.a
  /\ iter' = iter + 1
  /\ calls' = Append(Prologue, "getFrameIndex")
  /\ pc' = "uboInit"
  /\ UNCHANGED <<currentId, ringVars, clockVars, frameVars, rendererVars, gpuBusy,
                 windowVars, skips, acquired>>

NextUpd ==
  \/ UboInit
  \/ UpdateLights
  \/ WriteToBuffer
  \/ Flush
  \/ UpdateAgain
  \/ BeginSwapChainRenderPass
  \/ RenderGameObjects
  \/ RenderLights
  \/ EndSwapChainRenderPass
  \/ EndFrame

SpecUpd == InitUpd /\ [][NextUpd]_vars

\* The light entities of a registry, in registry order.
HasLight(e) == e.light # NoLight
LightsOf(objs) == SelectSeq(objs, HasLight)

\* The descriptors of the first MAX_LIGHTS light entities.
FirstLights(objs) ==
  LET all == LightsOf(objs)
      n == IF Len(all) < MAX_LIGHTS THEN Len(all) ELSE MAX_LIGHTS
  IN  [i \in 1 .. n |-> [color |-> all[i].light.color, intensity |-> all[i].light.intensity]]

\* Positions at which pointLightSystem.update has returned.
UpdatedPcs == {"write", "flush", "beginPass"} \cup PassPcs \cup {"endFrame"}
UploadedPcs == {"beginPass"} \cup PassPcs \cup {"endFrame"}

\* ------------------------------------------------------------------ C9
\* C9: the update phase never writes more than MAX_LIGHTS light descriptors,
\* however many light entities the registry holds; the lights beyond the
\* maximum are dropped, the first ones in registry order are kept, and the
\* frame goes on to its upload, render pass and endFrame.
C9_LightCountCapped ==
  /\ pc \in UpdatedPcs =>
       /\ ubo[1].numLights <= MAX_LIGHTS
       /\ ubo[1].numLights = Len(ubo[1].pointLights)
       /\ ubo[1].pointLights = FirstLights(gameObjects)
       /\ Len(LightsOf(gameObjects)) >= MAX_LIGHTS => ubo[1].numLights = MAX_LIGHTS
  /\ pc \in UploadedPcs =>
       /\ uboBuffers[frameIndex].device # None
       /\ uboBuffers[frameIndex].device[1].numLights <= MAX_LIGHTS
  /\ FrameDone => calls = IterCalls

\* A frame has completed for a registry holding more lights than the maximum.
C9_Witness ==
  /\ FrameDone
  /\ Len(LightsOf(gameObjects)) > MAX_LIGHTS
  /\ uboBuffers[frameIndex].device[1].numLights = MAX_LIGHTS

\* ------------------------------------------------------------------ C10
\* C10: after the update phase has run twice with no render phase in between,
\* the Shared State Block is what the second run alone produces from its camera
\* and registry: nothing of the first run's lights or matrices is left; every
\* run starts from a zero-initialised block.
ExpectedBlock(cam, objs) ==
  [projection |-> cam.projection, view |-> cam.view, inverseView |-> cam.inverseView,
   pointLights |-> FirstLights(objs), numLights |-> Len(FirstLights(objs))]

C10_LastWriteWins ==
  /\ pc = "update" =>
       /\ ubo # None
       /\ ubo[1].pointLights = <<>>
       /\ ubo[1].numLights = 0
       /\ StaticPart(ubo[1]) = StaticPart(ExpectedBlock(camera, gameObjects))
  /\ pc \in UpdatedPcs => ubo = Some(ExpectedBlock(camera, gameObjects))
  /\ pc \in UploadedPcs =>
       /\ uboBuffers[frameIndex].host = Some(ExpectedBlock(camera, gameObjects))
       /\ uboBuffers[frameIndex].device = Some(ExpectedBlock(camera, gameObjects))

\* The second run has produced its block; the buffer still holds the block of
\* the first run, which had more lights and another camera.
C10_Witness ==
  /\ pc = "write"
  /\ iter = 2
  /\ uboBuffers[frameIndex].host # None
  /\ uboBuffers[frameIndex].host[1].numLights > ubo[1].numLights
  /\ uboBuffers[frameIndex].host[1].view # ubo[1].view

\* ------------------------------------------------------------------ C11
\* C11: the registry the constructor builds holds exactly one light entity, the
\* one of loadSolarLight, of intensity 350.2 and color (1, 0.5, 0); after the
\* update phase of a frame the block's light array has length 1 and its one
\* descriptor carries that intensity and that color (values in tenths).
C11_SolarLightUploaded ==
  /\ pc = "update" =>
       LET lights == LightsOf(gameObjects)
       IN  /\ Len(lights) = 1
           /\ lights[1].light.intensity = 3502
           /\ lights[1].light.color = <<10, 5, 0>>
  /\ pc \in UpdatedPcs =>
       /\ ubo[1].numLights = 1
       /\ Len(ubo[1].pointLights) = 1
       /\ ubo[1].pointLights[1].intensity = 3502
       /\ ubo[1].pointLights[1].color = <<10, 5, 0>>

C11_Witness ==
  /\ pc = "write"
  /\ iter = 1
  /\ Len(LightsOf(gameObjects)) = 1
  /\ ubo[1].pointLights = <<[color |-> <<10, 5, 0>>, intensity |-> 3502]>>

\* ------------------------------------------------------------------ C12
\* Only beginFrame begins a frame: a successful one leads to the frame body.
FrameBegins == pc = "beginFrame" /\ pc' = "frameInfo"

\* C12 as stated: once the close flag of the window is raised the loop
\* terminates, the frame in progress runs to endFrame, no further frame is
\* begun, and the device wait comes before the return of run.
C12_NoFrameAfterSignal ==
  /\ closeEvent ~> pc = "done"
  /\ [][/\ pc \in FramePcs /\ pc' # pc => pc' \in FramePcs \cup {"loop"}
        /\ shouldClose => ~FrameBegins
        /\ pc' = "done" /\ pc # "done" => Called("vkDeviceWaitIdle") /\ gpuBusy = {}]_vars

\* The iteration whose glfwPollEvents raised the flag is carried through: it goes
\* on to beginFrame, and the frame is begun exactly when beginFrame returns a
\* command buffer; when beginFrame returns none the iteration ends there, with
\* no frame begun and nothing rendered.
C12_SeenIteration ==
  shouldClose =>
    /\ pc = "time" /\ pc' # pc => pc' = "input"
    /\ pc = "input" /\ pc' # pc => pc' = "beginFrame"
    /\ pc = "beginFrame" /\ pc' # pc =>
         /\ commandBuffer' # NullHandle => FrameBegins /\ isFrameStarted'
         /\ commandBuffer' = NullHandle =>
              /\ pc' = "loop"
              /\ calls' = Prologue
              /\ acquired' = acquired
              /\ uboBuffers' = uboBuffers

C12_ExitSteps ==
  /\ C12_SeenIteration
  /\ pc \in FramePcs /\ pc' # pc =>
       /\ pc' \in FramePcs \cup {"loop"}
       /\ pc' = "loop" => calls'[Len(calls')] = "endFrame"
  /\ shouldClose /\ pc = "loop" /\ pc' # pc => pc' = "waitIdle"
  /\ pc \in {"waitIdle", "return", "done"} =>
       /\ ~FrameBegins
       /\ pc' \in {"waitIdle", "return", "done"}
       /\ acquired' = acquired
       /\ ~isFrameStarted'
  /\ pc' = "done" /\ pc # "done" => Called("vkDeviceWaitIdle") /\ gpuBusy = {}

\* C12 (amended): a close request that stays raised leads to the return of run.
\* The iteration whose glfwPollEvents sees the request is carried through: when
\* its beginFrame returns a command buffer its frame is begun and rendered to
\* endFrame, when beginFrame returns none it renders nothing; a frame in progress
\* runs to endFrame; the loop test that follows the raising of the flag leaves
\* the loop, after which no frame is begun; and run returns only after
\* vkDeviceWaitIdle has returned with no GPU work pending.
C12_ShutdownTerminates ==
  /\ closeEvent ~> pc = "done"
  /\ (shouldClose /\ pc = "frameInfo") ~> (FrameDone /\ calls = IterCalls)
  /\ [][C12_ExitSteps]_vars

\* The frame begun while the close flag was already raised has been rendered.
C12_Witness ==
  /\ FrameDone
  /\ calls = IterCalls
  /\ shouldClose
  /\ closeEvent
  /\ ~isFrameStarted
  /\ iter >= 2

\* ------------------------------------------------------------------ C13
\* The calls that compute the frame time delta and update the camera.
TimeAndCameraCalls == {"now", "setViewYXZ", "setPerspectiveProjection"}

\* C13 as stated: the frame time delta and the camera update come after a
\* successful beginFrame and before the subsystem update phase, and are not
\* performed in an iteration whose frame is skipped.
C13_AfterBeginFrame ==
  pc \in LoopPcs =>
    /\ \A c \in TimeAndCameraCalls :
         /\ Called(c) => CalledBefore("beginFrame", c)
         /\ Called("update") => CalledBefore(c, "update")
    /\ FrameSkipped => \A c \in TimeAndCameraCalls : ~Called(c)

\* C13 (amended): the frame time delta computation and the camera
\* view/projection update happen at the top of every iteration, in the Idle
\* state before beginFrame, hence before the subsystem update phase of a
\* rendered frame; they are performed also in an iteration whose frame is
\* skipped, whose camera is the one of the viewer position and aspect ratio of
\* that iteration.
C13_BeforeBeginFrame ==
  pc \in LoopPcs =>
    /\ \A i \in 1 .. Len(calls) :
         calls[i] \in TimeAndCameraCalls => StateAfter(i - 1) = "Idle"
    /\ \A c \in TimeAndCameraCalls :
         /\ Count(calls, c) <= 1
         /\ Called("beginFrame") => CalledBefore(c, "beginFrame")
         /\ Called("update") => CalledBefore(c, "update")
    /\ pc = "beginFrame" => camera = CameraOfIteration
    /\ FrameSkipped =>
         /\ \A c \in TimeAndCameraCalls : Called(c)
         /\ camera = CameraOfIteration

\* An iteration is skipped in which the clock had advanced and the camera moved.
C13_Witness ==
  /\ FrameSkipped
  /\ Called("now")
  /\ frameTime > 0
  /\ viewerObject.z = ViewerStartZ + frameTime
  /\ camera.view.tz = 0 - viewerObject.z

\* ------------------------------------------------------------------ C14
\* currentTime holds the latest clock reading: the one taken just before the loop
\* until the first iteration reads the clock, the reading of the preceding
\* iteration afterwards. The delta of an iteration is the difference of its
\* reading and that one, whatever its size or sign: it is negative exactly when
\* the clock went back, and it reaches the Frame Context as it was computed.
C14_ClockSteps ==
  /\ (pc = "time" /\ pc' = "input") =>
       /\ currentTime' \in ClockReadings
       /\ frameTime' = currentTime' - currentTime
       /\ currentTime' >= currentTime => frameTime' >= 0
       /\ frameTime' < 0 => currentTime' < currentTime
  /\ (pc = "setup" /\ pc' # pc) => currentTime' \in ClockReadings
  /\ pc \notin {"time", "setup"} => currentTime' = currentTime
  /\ pc \in {"input", "beginFrame", "frameInfo"} => frameTime' = frameTime
  /\ pc = "frameInfo" /\ pc' # pc => frameInfo'[1].frameTime = frameTime

C14_InFrameContext ==
  pc \in FramePcs \ {"frameInfo"} =>
    /\ frameInfo[1].frameTime = frameTime
    /\ currentTime - frameInfo[1].frameTime \in ClockReadings

\* C14: the frame time delta of a Frame Context is the difference of the clock
\* readings of the current and the immediately preceding iteration (of the
\* reading taken just before the loop, for the first iteration); it is never
\* negative when the readings do not decrease and it is neither clamped nor
\* smoothed, a stall of any length showing up unmodified.
C14_FrameTimeDelta == [](C14_InFrameContext) /\ [][C14_ClockSteps]_vars

\* After an iteration without delay, a stall as long as the whole clock range
\* reaches the Frame Context of the next rendered frame.
C14_Witness ==
  /\ pc = "update"
  /\ iter >= 2
  /\ frameInfo[1].frameTime = MaxClock
  /\ currentTime = MaxClock

\* ------------------------------------------------------------------ C15
\* The calls that populate and upload the Shared State Block.
BlockCalls == {"update", "writeToBuffer", "flush"}

C15_OneCall ==
  pc \in LoopPcs =>
    /\ Count(calls, "moveInPlaneXZ") <= 1
    /\ (pc \in FramePcs \cup {"beginFrame"} \/ (pc = "loop" /\ calls # <<>>)) =>
         Count(calls, "moveInPlaneXZ") = 1
    /\ \A c \in BlockCalls : Called(c) => CalledBefore("moveInPlaneXZ", c)
    /\ ubo # None => Called("moveInPlaneXZ")

\* The viewer is moved by the input of the iteration, once, and by nothing else.
C15_MoveStep ==
  /\ (pc = "input" /\ pc' # pc) =>
       /\ \E key \in Keys : viewerObject'.z = viewerObject.z + key * frameTime
       /\ ubo = None
       /\ uboBuffers' = uboBuffers
  /\ pc \in LoopPcs \ {"input"} => viewerObject' = viewerObject

\* C15: the camera-control input is consumed exactly once per loop iteration (one
\* moveInPlaneXZ call, rendered or skipped), and always before the Shared State
\* Block of that iteration is populated and uploaded.
C15_InputOncePerIteration == [](C15_OneCall) /\ [][C15_MoveStep]_vars

\* The block of a later frame is uploaded after the one move of its iteration.
C15_Witness ==
  /\ pc = "beginPass"
  /\ iter >= 2
  /\ Count(calls, "moveInPlaneXZ") = 1
  /\ viewerObject.z = ViewerStartZ + frameTime
  /\ frameTime > 0
  /\ uboBuffers[frameIndex].device[1].inverseView.tz = viewerObject.z

\* ------------------------------------------------------------------ C16
\* The identifiers under which entities are registered.
RegisteredIds(objs) == {objs[i].key : i \in 1 .. Len(objs)}

\* The entities the constructor registers: floor and model, tree, bench, light,
\* four bushes for each step of the bush loop, and the plants.
CtorCount(r) == 5 + 4 * (BushLast - BushFirst + 1) + numPlants(r)

\* Before run starts the registry holds everything the loaders register.
C16_Populated ==
  pc = "setup" =>
    /\ \E r \in RandVals : Len(gameObjects) = CtorCount(r)
    /\ Cardinality(RegisteredIds(gameObjects)) = Len(gameObjects)
    /\ {gameObjects[i].model : i \in 1 .. Len(gameObjects)} =
         {"quad", "simple_model", "tree01", "bench", "bush", "plant", NoModel}

\* C16: the registry is fully populated by the constructor before run starts
\* and no step of run, inside the frame loop or around it, inserts or removes
\* an entity: the registered identifiers are the same between the beginFrame
\* and the endFrame of every frame and across all frames.
C16_RegistryFixed ==
  /\ [](C16_Populated)
  /\ [][/\ gameObjects' = gameObjects
        /\ Len(gameObjects') = Len(gameObjects)]_vars

\* Several frames have been rendered on the registry of the constructor.
C16_Witness ==
  /\ FrameDone
  /\ Len(acquired) >= 3
  /\ \E r \in RandVals : Len(gameObjects) = CtorCount(r)
  /\ viewerObject.id \notin RegisteredIds(gameObjects)

\* ------------------------------------------- the loaders, in any sequence
\* An application object under construction: nothing is registered yet.
InitLoad ==
  /\ gameObjects = EmptyScene.objs
  /\ currentId = EmptyScene.nextId
  /\ pc = "ctor"
  /\ NotStarted

\* The registry and the identifier counter as a scene, and back.
SceneNow == Scene(gameObjects, currentId)

Loaded(s, name) ==
  /\ pc = "ctor"
  /\ Len(calls) < MaxLoads
  /\ gameObjects' = s.objs
  /\ currentId' = s.nextId
  /\ calls' = Append(calls, name)
  /\ UNCHANGED <<pc, ringVars, cameraVars, clockVars, frameVars, rendererVars, gpuBusy,
                 windowVars, countVars>>

LoadGameObjects == Loaded(loadGameObjects(SceneNow), "loadGameObjects")
LoadTreeObjects == Loaded(loadTreeObjects(SceneNow), "loadTreeObjects")
LoadBenchObjects == Loaded(loadBenchObjects(SceneNow), "loadBenchObjects")
LoadBushObjects == Loaded(loadBushObjects(SceneNow), "loadBushObjects")
LoadSolarLight == Loaded(loadSolarLight(SceneNow), "loadSolarLight")
LoadPlantObjects ==
  \E r \in 0 .. MaxRand : Loaded(loadPlantObjects(SceneNow, r), "loadPlantObjects")

\* The constructor returns; run can be called.
CtorReturn ==
  /\ pc = "ctor"
  /\ pc' = "setup"
  /\ UNCHANGED <<sceneVars, ringVars, cameraVars, clockVars, frameVars, rendererVars,
                 gpuBusy, windowVars, countVars, calls>>

NextLoad ==
  \/ LoadGameObjects
  \/ LoadTreeObjects
  \/ LoadBenchObjects
  \/ LoadBushObjects
  \/ LoadSolarLight
  \/ LoadPlantObjects
  \/ CtorReturn
  \/ RunSetup

SpecLoad == InitLoad /\ [][NextLoad]_vars

\* ------------------------------------------------------------------ C17
\* The number of entities a loader registers, and of identifiers it consumes
\* without registering an entity.
Registers(name) ==
  CASE name = "loadGameObjects" -> {2}
    [] name = "loadBushObjects" -> {4 * (BushLast - BushFirst + 1)}
    [] name = "loadPlantObjects" -> PlantBase .. (PlantBase + PlantSpread - 1)
    [] OTHER -> {1}
Unregistered(name) == IF name = "loadTreeObjects" THEN 1 ELSE 0

C17_OwnIdentifier ==
  /\ \A i \in 1 .. Len(gameObjects) :
       /\ gameObjects[i].key = gameObjects[i].id
       /\ gameObjects[i].id < currentId
  /\ Cardinality(RegisteredIds(gameObjects)) = Len(gameObjects)
  /\ pc = "ctor" => Len(gameObjects) + Count(calls, "loadTreeObjects") = currentId
  /\ pc = "loop" =>
       /\ viewerObject.id \notin RegisteredIds(gameObjects)
       /\ viewerObject.id < currentId
       /\ Len(gameObjects) + Count(calls, "loadTreeObjects") + 1 = currentId

C17_LoaderStep ==
  (pc = "ctor" /\ calls' # calls) =>
    LET name == calls'[Len(calls')]
        added == Len(gameObjects') - Len(gameObjects)
    IN  /\ IsPrefix(gameObjects, gameObjects')
        /\ added \in Registers(name)
        /\ currentId' - currentId = added + Unregistered(name)

\* C17: after any sequence of the loaders every registered entity is stored
\* under its own identifier, no two entities share an identifier and every
\* insertion adds a new entry (none is dropped as a duplicate key), although the
\* first tree of loadTreeObjects and the viewer object of run consume an
\* identifier without being registered.
C17_UniqueIdentifiers == [](C17_OwnIdentifier) /\ [][C17_LoaderStep]_vars

\* The bushes have been loaded after the trees, and run has created its viewer.
C17_Witness ==
  /\ pc = "loop"
  /\ calls = <<"loadTreeObjects", "loadBushObjects">>
  /\ Len(gameObjects) = 1 + 4 * (BushLast - BushFirst + 1)
  /\ gameObjects[1].key = 1
  /\ viewerObject.id = Len(gameObjects) + 1

\* ------------------------------------------------------------------ C18
\* Descriptor set i is bound to buffer i, and the Frame Context of a frame
\* carries the slot index of the frame and the descriptor set of that slot.
C18_BoundAtSetup ==
  /\ resources = "live" =>
       /\ DOMAIN uboBuffers = Slots
       /\ DOMAIN globalDescriptorSets = Slots
       /\ \A i \in Slots : globalDescriptorSets[i] = i
  /\ pc \in FramePcs \ {"frameInfo"} =>
       /\ frameIndex = currentFrameIndex
       /\ frameInfo[1].frameIndex = frameIndex
       /\ frameInfo[1].globalDescriptorSet = globalDescriptorSets[frameIndex]
       /\ frameInfo[1].globalDescriptorSet = frameIndex
  /\ pc \in UploadedPcs \cup {"flush"} =>
       uboBuffers[frameInfo[1].globalDescriptorSet].host = ubo

\* The write and the flush of a frame touch the buffer its descriptor set is
\* bound to, and no other.
C18_UploadStep ==
  pc \in {"write", "flush"} =>
    \A i \in Slots :
      i # frameInfo[1].globalDescriptorSet => uboBuffers'[i] = uboBuffers[i]

\* C18: in every rendered frame the buffer that receives the block, the
\* descriptor set of the Frame Context and the slot index of the Frame Context
\* belong to the same slot: descriptor set i is bound to buffer i for every i in
\* [0, N) at setup, and the frame uses frameIndex for all three.
C18_SameSlot == [](C18_BoundAtSetup) /\ [][C18_UploadStep]_vars

\* A frame on the last slot of the ring has uploaded its block.
C18_Witness ==
  /\ pc = "beginPass"
  /\ frameIndex = MAX_FRAMES_IN_FLIGHT - 1
  /\ frameInfo[1].globalDescriptorSet = frameIndex
  /\ uboBuffers[frameInfo[1].globalDescriptorSet].device = ubo

\* ------------------------------------------------------------------ C19
\* The Frame Context of the iteration at hand, as line 387 builds it.
FrameInfoOfIteration ==
  [frameIndex |-> frameIndex,
   frameTime |-> frameTime,
   commandBuffer |-> commandBuffer,
   camera |-> camera,
   globalDescriptorSet |-> globalDescriptorSets[frameIndex]]

C19_OnePerFrame ==
  /\ pc \in {"poll", "time", "input", "beginFrame", "frameInfo"} => frameInfo = None
  /\ FrameSkipped => frameInfo = None /\ ~Called("getFrameIndex")
  /\ pc \in FramePcs \ {"frameInfo"} =>
       /\ frameInfo = Some(FrameInfoOfIteration)
       /\ Count(calls, "getFrameIndex") = 1
       /\ commandBuffer # NullHandle

\* The Frame Context is built at one place, dropped at the end of the
\* iteration, and left alone by every call that is handed it.
C19_ContextStep ==
  /\ pc \in FramePcs \ {"frameInfo"} => frameInfo' = frameInfo
  /\ frameInfo' # frameInfo =>
       \/ pc = "frameInfo" /\ frameInfo = None /\ frameInfo' # None
       \/ pc = "loop" /\ frameInfo' = None
  /\ (pc \in {"update", "renderObjects", "renderLights"} /\ pc' # pc) =>
       /\ frameInfo # None
       /\ frameInfo'[1] = FrameInfoOfIteration

\* C19: within one rendered frame the same Frame Context value is handed to
\* pointLightSystem.update, renderGameObjects and pointLightSystem.render; a
\* Frame Context is constructed exactly once per rendered frame and never in a
\* skipped iteration, and none is reused in a later frame.
C19_SameFrameContext == [](C19_OnePerFrame) /\ [][C19_ContextStep]_vars

\* The last subsystem call of a later frame has been made with the context
\* built for that frame.
C19_Witness ==
  /\ pc = "endPass"
  /\ Len(acquired) >= 2
  /\ Called("update") /\ Called("renderGameObjects") /\ Called("render")
  /\ frameInfo = Some(FrameInfoOfIteration)
  /\ frameInfo[1].frameIndex = acquired[Len(acquired)]

\* ------------------------------------------------------------------ C20
C20_PoolCapacity ==
  /\ globalPool.maxSets = MAX_FRAMES_IN_FLIGHT
  /\ globalPool.uniformBuffers = MAX_FRAMES_IN_FLIGHT
  /\ globalPool.allocated <= globalPool.maxSets
  /\ globalPool.allocated <= globalPool.uniformBuffers
  /\ pc = "setup" => globalPool.allocated = 0
  /\ pc # "setup" =>
       /\ globalPool.allocated = MAX_FRAMES_IN_FLIGHT
       /\ globalPool.allocated = Cardinality(DOMAIN globalDescriptorSets)

C20_AllocationStep ==
  /\ globalPool'.allocated >= globalPool.allocated
  /\ globalPool' # globalPool => pc = "setup"
  /\ pc \in LoopPcs => globalPool' = globalPool /\ globalDescriptorSets' = globalDescriptorSets

\* C20: the descriptor sets allocated from globalPool during the setup of run
\* are exactly MAX_FRAMES_IN_FLIGHT, which is both the pool's maximum number of
\* sets and its number of uniform-buffer descriptors; the setup never requests
\* more sets than the pool provides, and nothing is allocated inside the loop.
C20_PoolSuffices == [](C20_PoolCapacity) /\ [][C20_AllocationStep]_vars

\* More frames have been rendered than the pool has sets.
C20_Witness ==
  /\ FrameDone
  /\ Len(acquired) > MAX_FRAMES_IN_FLIGHT
  /\ globalPool.allocated = globalPool.maxSets
  /\ globalPool.allocated = MAX_FRAMES_IN_FLIGHT

\* ------------------------------------------------------------------ C21
\* What loadPlantObjects does to the registry at hand when rand() returns r: the
\* count it computes is between 8 and 15, and exactly that many entities, all
\* of them plants under new identifiers, are appended.
PlantsFor(r) ==
  LET s == loadPlantObjects(SceneNow, r)
      n == numPlants(r)
      before == Len(gameObjects)
  IN  /\ n >= 8 /\ n <= 15
      /\ n = 8 + (r % 8)
      /\ Len(s.objs) = before + n
      /\ s.nextId = currentId + n
      /\ IsPrefix(gameObjects, s.objs)
      /\ \A i \in (before + 1) .. Len(s.objs) :
           /\ s.objs[i].model = "plant"
           /\ s.objs[i].light = NoLight
           /\ s.objs[i].key = currentId + (i - before - 1)

C21_AnyRand == pc = "ctor" => \A r \in 0 .. MaxRand : PlantsFor(r)

\* A call of loadPlantObjects adds between 8 and 15 plants, the count of some
\* value of rand(), and consumes that many identifiers.
C21_PlantStep ==
  (pc = "ctor" /\ calls' # calls /\ calls'[Len(calls')] = "loadPlantObjects") =>
    LET added == Len(gameObjects') - Len(gameObjects)
    IN  /\ added >= 8 /\ added <= 15
        /\ \E r \in 0 .. MaxRand : added = 8 + (r % 8)
        /\ currentId' - currentId = added
        /\ \A i \in (Len(gameObjects) + 1) .. Len(gameObjects') :
             gameObjects'[i].model = "plant"

\* C21: for every non-negative value returned by rand(), loadPlantObjects
\* computes a plant count between 8 and 15 inclusive and inserts exactly that
\* many plant entities into the registry.
C21_PlantCount == [](C21_AnyRand) /\ [][C21_PlantStep]_vars

\* The largest count: fifteen plants have been added to the bushes.
C21_Witness ==
  /\ pc = "ctor"
  /\ calls = <<"loadBushObjects", "loadPlantObjects">>
  /\ Len(gameObjects) = 4 * (BushLast - BushFirst + 1) + 15
  /\ gameObjects[Len(gameObjects)].model = "plant"
  /\ currentId = Len(gameObjects)

====
